---- MODULE Spec2Model ----
(***************************************************************************)
(* Omnichain asset bridge: the relayer (index.js, the three listeners and  *)
(* the SQLite store) together with the parts of the two chains it talks to *)
(* (source events, destination replay maps, the pause flag).               *)
(***************************************************************************)
EXTENDS Integers, Sequences, FiniteSets, TLC

(* ------------------------------ bounds -------------------------------- *)
\* What a run may contain beyond one source event: every further source event, every
\* crash, every duplicate delivery, every admin unpause(), every proposal with a selector
\* the relayer does not know, every processing step that meets transient failures
\* (RPC errors, lost receipts, store errors) and a deployment that has not granted the
\* relayer its role take one unit of this budget each (an injected log, where the
\* specification admits them, too).
Budget == 2

(* ------------------------- program constants -------------------------- *)
MAX_RETRIES == 3
confirmationDepth == 3
\* waitForRpc(url, name, maxRetries = 30); loadDeployments: for (let i = 0; i < 60; i++)
maxRetries == 30
deploymentRetries == 60
\* GovernanceVoting
QUORUM == 1
VOTING_PERIOD == 10

(* ------------------------------ streams ------------------------------- *)
LOCK == "chainA_lock"
BURN == "chainB_burn"
GOV == "chainB_governance"
Streams == {LOCK, BURN, GOV}
\* the order in which main() recovers the pipelines
RecoveryOrder == <<LOCK, BURN, GOV>>
Chains == {"A", "B"}

\* the chain whose events a listener reads
SourceChain(s) == IF s = LOCK THEN "A" ELSE "B"
\* the chain label and event type a listener passes to the store
ChainLabel(s) == IF s = LOCK THEN "chainA" ELSE "chainB"
EventType(s) == IF s = LOCK THEN "Locked" ELSE IF s = BURN THEN "Burned" ELSE "ProposalPassed"

pauseSelector == "0x6b9a13e3"
otherSelector == "0xdeadbeef"
NoSelector == "none"

Voters == {"alice", "bob", "carol"}
\* votingToken.balanceOf(voter) while proposals are voted on
balanceOf == [v \in Voters |-> IF v = "alice" THEN 2 ELSE IF v = "bob" THEN 1 ELSE 0]

VARIABLES
    focus,             \* the stream under study: the one whose source emits events in this run
    relayerRole,       \* the relayer's account holds RELAYER_ROLE on the stream's destination contract
    head,              \* head[c]: latest block number of chain c
    evlog,             \* source events in emission order: [s, nonce, blk, sel, amount]
    processedNonces,   \* destination replay maps: LOCK -> processedMintNonces, BURN -> processedUnlockNonces
    paused,            \* BridgeLock (Pausable) paused flag
    locked,            \* VaultToken.balanceOf(BridgeLock)
    supply,            \* WrappedVaultToken.totalSupply()
    srcNonce,          \* srcNonce[LOCK]: BridgeLock.lockNonce, srcNonce[BURN]: BridgeMint.burnNonce
    proposals,         \* GovernanceVoting.proposals: proposal p is proposals[p + 1],
                       \* [data, votesFor, votesAgainst, deadline, executed]
    hasVoted,          \* GovernanceVoting.hasVoted: the pairs <<p, voter>> that are true
    processed_events,  \* store table: rows [nonce, chain, event_type, tx_hash]
    block_cursors,     \* store table: rows [chain, last_block]
    mainPc,            \* position of main(): "rpcA", "rpcB", "deployments" (startup),
                       \* "recover", "starting", "live", and "exited" after process.exit
    sup,               \* the supervisor: [polls: failed polls of the running startup wait,
                       \* exit: the exit code, hbErrors: "[Heartbeat] Error" lines logged]
    recIdx,            \* index in RecoveryOrder of the pipeline being recovered
    rec,               \* the running recoverMissedEvents: [active, H, queue]
    sub,               \* sub[s]: head of the source chain when the live subscription started
    handler,           \* handler[RecH]: the _handleEvent call of the recovery loop;
                       \* handler[<<i, k>>]: the callback of the k-th live delivery of event i
    spent,             \* units of Budget used by crashes, duplicates, failures and unpauses
    mined,             \* history: destination transactions mined successfully, [ev, k]
    called,            \* history: events for which a destination call was invoked
    abandoned,         \* history: events with a CRITICAL "failed after 3 attempts" log line
    markCalls,         \* history: keys markProcessed was called with
    recDone            \* history: the last completed recoverMissedEvents of the stream under study:
                       \* [H: the head it read, n: the stream's events emitted when it returned]

vars == <<focus, relayerRole, head, evlog, processedNonces, paused, locked, supply,
          srcNonce, proposals, hasVoted,
          processed_events, block_cursors, mainPc, sup, recIdx, rec, sub, handler, spent,
          mined, called, abandoned, markCalls, recDone>>

chainVars == <<focus, relayerRole, head, evlog, processedNonces, paused, locked, supply,
               srcNonce, proposals, hasVoted>>
srcVars == <<srcNonce, proposals, hasVoted>>
govVars == <<proposals, hasVoted>>
destVars == <<processedNonces, paused, locked, supply>>
storeVars == <<processed_events, block_cursors>>
mainVars == <<mainPc, sup, recIdx, rec, sub>>
histVars == <<mined, called, abandoned, markCalls, recDone>>

(* --------------------------- the store (db) --------------------------- *)
\* variant: PRIMARY KEY (nonce, chain)
Key_ChainOnly(nonce, chain, eventType) == [nonce |-> nonce, chain |-> chain, event_type |-> ""]

\* PRIMARY KEY (nonce, chain, event_type)
Key(nonce, chain, eventType) == [nonce |-> nonce, chain |-> chain, event_type |-> eventType]
RowKey(r) == Key(r.nonce, r.chain, r.event_type)

\* SELECT 1 FROM processed_events WHERE nonce = ? AND chain = ? AND event_type = ?
isProcessed(table, nonce, chain, eventType) ==
    \E r \in table : RowKey(r) = Key(nonce, chain, eventType)

\* variant: INSERT OR REPLACE INTO processed_events (the last writer's hash wins)
markProcessed_Replace(table, nonce, chain, txHash, eventType) ==
    {r \in table : RowKey(r) # Key(nonce, chain, eventType)}
        \cup {[nonce |-> nonce, chain |-> chain, event_type |-> eventType, tx_hash |-> txHash]}

\* INSERT OR IGNORE INTO processed_events
markProcessed(table, nonce, chain, txHash, eventType) ==
    IF \E r \in table : RowKey(r) = Key(nonce, chain, eventType)
    THEN table
    ELSE table \cup {[nonce |-> nonce, chain |-> chain, event_type |-> eventType, tx_hash |-> txHash]}

\* variant: row ? row.last_block : 1
getLastBlock_DefaultOne(table, chain) ==
    IF \E r \in table : r.chain = chain
    THEN (CHOOSE r \in table : r.chain = chain).last_block
    ELSE 1

\* SELECT last_block FROM block_cursors WHERE chain = ?   (row ? row.last_block : 0)
getLastBlock(table, chain) ==
    IF \E r \in table : r.chain = chain
    THEN (CHOOSE r \in table : r.chain = chain).last_block
    ELSE 0

\* INSERT OR REPLACE INTO block_cursors
setLastBlock(table, chain, blockNumber) ==
    {r \in table : r.chain # chain} \cup {[chain |-> chain, last_block |-> blockNumber]}

(* ------------------------------ handlers ------------------------------ *)
\* a _waitForConfirmation / _handleEvent activation
\*   pc: "idle"    no activation
\*       "wait"    in the polling loop of _waitForConfirmation (live only)
\*       "send"    destination call of attempt `attempt` invoked, transaction not yet executed
\*       "receipt" transaction mined, tx.wait() returned the receipt of transaction tx
\*       "marked"  markProcessed done, setLastBlock not yet run
\*       "done"    returned (live only; the recovery loop's call goes back to "idle")
\*   flaky: this activation has met a transient failure (bookkeeping of the budget)
EventIds == 1..(Budget + 2)
Deliveries == 1..(Budget + 1)
RecH == <<0, 0>>
LiveIds == EventIds \X Deliveries
HandlerIds == {RecH} \cup LiveIds
NoTx == [ev |-> 0, k |-> 0]
Idle == [pc |-> "idle", ev |-> 0, attempt |-> 0, tx |-> NoTx, flaky |-> FALSE]
Returned(id, i) == IF id = RecH THEN Idle ELSE [Idle EXCEPT !.pc = "done", !.ev = i]

Emitted == 1..Len(evlog)
EventsOf(s) == {i \in Emitted : evlog[i].s = s}
Marked(i) == isProcessed(processed_events, evlog[i].nonce, ChainLabel(evlog[i].s), EventType(evlog[i].s))
Cursor(s) == getLastBlock(block_cursors, s)

(* ------------------------------- budget ------------------------------- *)
\* Runs study one stream at a time: only the source of stream `focus` emits events.
Used == spent + (IF Cardinality(EventsOf(focus)) > 1 THEN Cardinality(EventsOf(focus)) - 1 ELSE 0)
             + (IF relayerRole THEN 0 ELSE 1)
CanSpend == Used < Budget
CanEmit(s) == s = focus /\ (EventsOf(focus) = {} \/ CanSpend)

(* ------------------------------ initial state ------------------------- *)
\* A burn needs wrapped tokens, which only a relayed lock creates. A run that studies the
\* Burn stream therefore starts where an earlier relayer process has relayed one lock of
\* FundedAmount tokens (Locked nonce 0 in block 1 of chain A, minted, marked, recovery
\* of the range 1..1+confirmationDepth completed) and the relayer process is started again.
FundedAmount == Budget + 1
FundingLock == [s |-> LOCK, nonce |-> 0, blk |-> 1, sel |-> NoSelector, amount |-> FundedAmount]
FundingTx == [ev |-> 1, k |-> 1]
Funded == focus = BURN

NeverRecovered == [H |-> -1, n |-> -1]

\* A run that studies the governance stream starts where GovernanceVoting holds NumReady
\* proposals that can be executed: proposal p was created in block p + 1 of chain B, alice
\* voted for it in block NumReady + p + 1, and the chain has passed the last deadline.
\* One of them carries a selector the relayer does not know.
NumReady == Budget + 2
ReadyProposals ==
    [i \in 1..NumReady |->
        [data |-> IF i = 2 THEN otherSelector ELSE pauseSelector,
         votesFor |-> balanceOf["alice"], votesAgainst |-> 0,
         deadline |-> i + VOTING_PERIOD, executed |-> FALSE]]
ReadyHead == NumReady + VOTING_PERIOD

NoExit == -1
NoSup == [polls |-> 0, exit |-> NoExit, hbErrors |-> 0]

\* the state of a deployment whose GovernanceVoting holds the proposals ps with the votes
\* hv at block headB of chain B, and of a relayer process before it has done anything
Deployed(ps, hv, headB) ==
    /\ head = [c \in Chains |-> IF Funded /\ c = "A" THEN 1 + confirmationDepth
                              ELSE IF c = "B" THEN headB ELSE 0]
    /\ evlog = IF Funded THEN <<FundingLock>> ELSE <<>>
    /\ processedNonces = [s \in {LOCK, BURN} |-> IF Funded /\ s = LOCK THEN {0} ELSE {}]
    /\ locked = IF Funded THEN FundedAmount ELSE 0
    /\ supply = IF Funded THEN FundedAmount ELSE 0
    /\ srcNonce = [s \in {LOCK, BURN} |-> IF Funded /\ s = LOCK THEN 1 ELSE 0]
    /\ proposals = ps
    /\ hasVoted = hv
    /\ processed_events = IF Funded
                          THEN markProcessed({}, 0, ChainLabel(LOCK), FundingTx, EventType(LOCK))
                          ELSE {}
    /\ block_cursors = IF Funded THEN setLastBlock({}, LOCK, 1 + confirmationDepth) ELSE {}
    /\ sup = NoSup
    /\ recIdx = 1
    /\ rec = [active |-> FALSE, H |-> 0, queue |-> <<>>]
    /\ sub = [s \in Streams |-> 0]
    /\ handler = [id \in HandlerIds |-> Idle]
    /\ spent = 0
    /\ mined = IF Funded THEN {FundingTx} ELSE {}
    /\ called = IF Funded THEN {1} ELSE {}
    /\ abandoned = {}
    /\ markCalls = IF Funded THEN {Key(0, ChainLabel(LOCK), EventType(LOCK))} ELSE {}
    /\ recDone = NeverRecovered

\* the deployments the runs start from
Deployments ==
    IF focus = GOV
    THEN Deployed(ReadyProposals, {<<p, "alice">> : p \in 0..(NumReady - 1)}, ReadyHead)
    ELSE Deployed(<<>>, {}, 0)

\* the relayer process has connected to both chains and loaded the deployment files
Init ==
    /\ focus \in Streams
    /\ relayerRole \in BOOLEAN
    /\ Deployments
    /\ paused = FALSE
    /\ mainPc = "recover"

\* the relayer process has just been started
InitStartup ==
    /\ focus \in Streams
    /\ relayerRole \in BOOLEAN
    /\ Deployments
    /\ paused = FALSE
    /\ mainPc = "rpcA"

\* the Burn stream in front of a BridgeLock that was paused before the relayer started
InitPaused ==
    /\ focus = BURN
    /\ relayerRole = TRUE
    /\ Deployments
    /\ paused = TRUE
    /\ mainPc = "recover"

\* GovernanceVoting right after its deployment
InitVoting ==
    /\ focus = GOV
    /\ relayerRole = TRUE
    /\ Deployed(<<>>, {}, 0)
    /\ paused = FALSE
    /\ mainPc = "recover"

(* ------------------------- the chains (environment) ------------------- *)
\* a block without events of the three streams is mined (blocks that bury no event
\* less than confirmationDepth deep change nothing the relayer reads but the block numbers)
MineBlock(c) ==
    /\ \E i \in 1..Len(evlog) : SourceChain(evlog[i].s) = c /\ head[c] - evlog[i].blk < confirmationDepth
    /\ head' = [head EXCEPT ![c] = @ + 1]
    /\ UNCHANGED <<focus, relayerRole, srcVars, evlog, destVars, storeVars, mainVars, handler, spent, histVars>>

\* a transaction that emits a source event is mined in a block of its own
NewEvent(s, nonce, sel, amount) ==
    [s |-> s, nonce |-> nonce, blk |-> head[SourceChain(s)] + 1, sel |-> sel, amount |-> amount]

AppendEvent(e) ==
    /\ evlog' = Append(evlog, e)
    /\ head' = [head EXCEPT ![SourceChain(e.s)] = @ + 1]

LockAmount == 1
BurnAmount == 1

\* variant: the counter is read but not incremented (nonce = lockNonce)
NextNonce_Stuck(n) == n

\* lockNonce++ / burnNonce++
NextNonce(n) == n + 1

NoRevert == "none"

\* variant: lock() without the whenNotPaused modifier
LockRevert_NotPausable(amount) ==
    IF amount = 0 THEN "ZeroAmount" ELSE NoRevert

\* BridgeLock.lock(amount): whenNotPaused, then amount == 0
LockRevert(amount) ==
    IF paused THEN "EnforcedPause"
    ELSE IF amount = 0 THEN "ZeroAmount" ELSE NoRevert

\* BridgeMint.burn(amount): amount == 0, then the ERC20 burn of the caller's balance
BurnRevert(amount) ==
    IF amount = 0 THEN "ZeroAmount"
    ELSE IF supply < amount THEN "ERC20InsufficientBalance" ELSE NoRevert

\* BridgeLock.lock(amount): nonce = lockNonce++, tokens move to the bridge, Locked is emitted.
\* A run that studies the governance stream may contain users' locks once a pause has
\* been relayed (a unit of the budget each).
Lock ==
    /\ CanEmit(LOCK) \/ (focus = GOV /\ mined # {} /\ CanSpend)
    /\ LockRevert(LockAmount) = NoRevert
    /\ AppendEvent(NewEvent(LOCK, srcNonce[LOCK], NoSelector, LockAmount))
    /\ srcNonce' = [srcNonce EXCEPT ![LOCK] = NextNonce(@)]
    /\ locked' = locked + LockAmount
    /\ spent' = IF focus = GOV THEN spent + 1 ELSE spent
    /\ UNCHANGED <<focus, relayerRole, govVars, processedNonces, paused, supply, storeVars, mainVars, handler, histVars>>

\* a Locked / Burned log with amount 0 reaches the listener of the stream under study
\* (BridgeLock.lock and BridgeMint.burn reject amount 0: such a log is an injected one;
\* it carries the nonce the contract would use next and leaves the contract's counter alone)
InjectZeroAmount ==
    /\ focus \in {LOCK, BURN}
    /\ CanEmit(focus)
    /\ Used + (IF EventsOf(focus) = {} THEN 0 ELSE 1) < Budget
    /\ spent' = spent + 1
    /\ AppendEvent(NewEvent(focus, srcNonce[focus], NoSelector, 0))
    /\ UNCHANGED <<focus, relayerRole, srcVars, destVars, storeVars, mainVars, handler, histVars>>

\* BridgeMint.burn(amount): amount > 0, nonce = burnNonce++, burns wVLT of the caller
Burn ==
    /\ CanEmit(BURN)
    /\ BurnRevert(BurnAmount) = NoRevert
    /\ AppendEvent(NewEvent(BURN, srcNonce[BURN], NoSelector, BurnAmount))
    /\ srcNonce' = [srcNonce EXCEPT ![BURN] = NextNonce(@)]
    /\ supply' = supply - BurnAmount
    /\ UNCHANGED <<focus, relayerRole, govVars, processedNonces, paused, locked, storeVars, mainVars, handler, spent, histVars>>

(* GovernanceVoting (chain B) *)
ProposalIds == 0..(Budget + 1)
proposalCount == Len(proposals)
\* the number of the block in which the next transaction of chain B is mined
block_number == head["B"] + 1
\* storage of a proposal id that was never written
ZeroProposal == [data |-> NoSelector, votesFor |-> 0, votesAgainst |-> 0, deadline |-> 0, executed |-> FALSE]
Proposal(p) == IF p < proposalCount THEN proposals[p + 1] ELSE ZeroProposal

\* createProposal(description, data): proposalId = proposalCount++
CreateProposal(data) ==
    /\ proposalCount < Budget
    /\ proposals' = Append(proposals, [data |-> data, votesFor |-> 0, votesAgainst |-> 0,
                                       deadline |-> block_number + VOTING_PERIOD, executed |-> FALSE])
    /\ head' = [head EXCEPT !["B"] = @ + 1]
    /\ UNCHANGED <<focus, relayerRole, srcNonce, hasVoted, evlog, destVars, storeVars, mainVars,
                   handler, spent, histVars>>

\* variant: vote() without the hasVoted check
VoteRevert_NoHasVoted(p, voter) ==
    IF block_number > Proposal(p).deadline THEN "ProposalNotActive"
    ELSE IF balanceOf[voter] = 0 THEN "NoVotingPower"
    ELSE NoRevert

\* the checks of vote(proposalId, support), in the order of the code
VoteRevert(p, voter) ==
    IF block_number > Proposal(p).deadline THEN "ProposalNotActive"
    ELSE IF <<p, voter>> \in hasVoted THEN "AlreadyVoted"
    ELSE IF balanceOf[voter] = 0 THEN "NoVotingPower"
    ELSE NoRevert

\* vote(proposalId, support) by voter
Vote(p, voter, support) ==
    /\ VoteRevert(p, voter) = NoRevert
    /\ hasVoted' = hasVoted \cup {<<p, voter>>}
    /\ proposals' = IF support
                    THEN [proposals EXCEPT ![p + 1].votesFor = @ + balanceOf[voter]]
                    ELSE [proposals EXCEPT ![p + 1].votesAgainst = @ + balanceOf[voter]]
    /\ head' = [head EXCEPT !["B"] = @ + 1]
    /\ UNCHANGED <<focus, relayerRole, srcNonce, evlog, destVars, storeVars, mainVars,
                   handler, spent, histVars>>

\* variant: executeProposal() without the executed check
ExecuteRevert_NoExecutedFlag(p) ==
    IF block_number <= Proposal(p).deadline THEN "VotingNotEnded"
    ELSE IF Proposal(p).votesFor <= Proposal(p).votesAgainst THEN "ProposalNotPassed"
    ELSE IF Proposal(p).votesFor < QUORUM THEN "ProposalNotPassed"
    ELSE NoRevert

\* the checks of executeProposal(proposalId), in the order of the code
ExecuteRevert(p) ==
    IF Proposal(p).executed THEN "ProposalAlreadyExecuted"
    ELSE IF block_number <= Proposal(p).deadline THEN "VotingNotEnded"
    ELSE IF Proposal(p).votesFor <= Proposal(p).votesAgainst THEN "ProposalNotPassed"
    ELSE IF Proposal(p).votesFor < QUORUM THEN "ProposalNotPassed"
    ELSE NoRevert

\* GovernanceVoting.executeProposal(proposalId): sets executed, emits
\* ProposalPassed(proposalId, data). Of the proposals with the same data that can be
\* executed, the one with the lowest id is executed first here.
ExecuteProposal(p) ==
    /\ ExecuteRevert(p) = NoRevert
    /\ \A q \in ProposalIds :
          q < p /\ Proposal(q).data = Proposal(p).data => ExecuteRevert(q) # NoRevert
    /\ CanEmit(GOV)
    /\ Proposal(p).data # pauseSelector => Used + (IF EventsOf(GOV) = {} THEN 0 ELSE 1) < Budget
    /\ spent' = IF Proposal(p).data # pauseSelector THEN spent + 1 ELSE spent
    /\ proposals' = [proposals EXCEPT ![p + 1].executed = TRUE]
    /\ AppendEvent(NewEvent(GOV, p, Proposal(p).data, 0))
    /\ UNCHANGED <<focus, relayerRole, srcNonce, hasVoted, destVars, storeVars, mainVars,
                   handler, histVars>>

\* a block without transactions of GovernanceVoting is mined while a vote is running
VotingBlock ==
    /\ \E p \in ProposalIds : p < proposalCount /\ ~Proposal(p).executed /\ head["B"] <= Proposal(p).deadline
    /\ head' = [head EXCEPT !["B"] = @ + 1]
    /\ UNCHANGED <<focus, relayerRole, srcVars, evlog, destVars, storeVars, mainVars,
                   handler, spent, histVars>>

\* BridgeLock.unpause() by the admin
Unpause ==
    /\ paused
    /\ CanSpend
    /\ paused' = FALSE
    /\ spent' = spent + 1
    /\ UNCHANGED <<focus, relayerRole, srcVars, head, evlog, processedNonces, locked, supply,
                   storeVars, mainVars, handler, histVars>>

(* ------------------------------ the relayer --------------------------- *)
\* main() has passed its startup (waitForRpc twice, loadDeployments) and has not exited
Started == mainPc \in {"recover", "starting", "live"}

\* main().catch: console.error, process.exit(1); nothing of the process is left
Exit1 ==
    /\ mainPc' = "exited"
    /\ recIdx' = 1
    /\ rec' = [active |-> FALSE, H |-> 0, queue |-> <<>>]
    /\ sub' = [s \in Streams |-> 0]
    /\ handler' = [id \in HandlerIds |-> Idle]

\* variant: a loop that gives up one poll early
RetriesExhausted_OneEarly(i, max) == ~(i + 1 < max)

\* the loop condition i < maxRetries (i < 60) no longer holds
RetriesExhausted(i, max) == ~(i < max)

\* waitForRpc, lines 41-44: provider.getBlockNumber() succeeds, the provider is returned
WaitForRpcReady ==
    /\ mainPc \in {"rpcA", "rpcB"}
    /\ mainPc' = IF mainPc = "rpcA" THEN "rpcB" ELSE "deployments"
    /\ sup' = [sup EXCEPT !.polls = 0]
    /\ UNCHANGED <<chainVars, storeVars, recIdx, rec, sub, handler, spent, histVars>>

\* waitForRpc, lines 45-50: the query throws; after the sleep the loop goes on or,
\* with the retries exhausted, the function throws and main().catch exits
WaitForRpcFails ==
    /\ mainPc \in {"rpcA", "rpcB"}
    /\ IF RetriesExhausted(sup.polls + 1, maxRetries)
       THEN /\ sup' = [sup EXCEPT !.polls = @ + 1, !.exit = 1]
            /\ Exit1
       ELSE /\ sup' = [sup EXCEPT !.polls = @ + 1]
            /\ UNCHANGED <<mainPc, recIdx, rec, sub, handler>>
    /\ UNCHANGED <<chainVars, storeVars, spent, histVars>>

\* loadDeployments, lines 59-63: both files exist and are read
LoadDeploymentsFound ==
    /\ mainPc = "deployments"
    /\ mainPc' = "recover"
    /\ sup' = [sup EXCEPT !.polls = 0]
    /\ UNCHANGED <<chainVars, storeVars, recIdx, rec, sub, handler, spent, histVars>>

\* loadDeployments, lines 64-67: a file is missing; after the sleep the loop goes on or,
\* after 60 polls, the function throws and main().catch exits
LoadDeploymentsMissing ==
    /\ mainPc = "deployments"
    /\ IF RetriesExhausted(sup.polls + 1, deploymentRetries)
       THEN /\ sup' = [sup EXCEPT !.polls = @ + 1, !.exit = 1]
            /\ Exit1
       ELSE /\ sup' = [sup EXCEPT !.polls = @ + 1]
            /\ UNCHANGED <<mainPc, recIdx, rec, sub, handler>>
    /\ UNCHANGED <<chainVars, storeVars, spent, histVars>>

\* a handler between markProcessed and setLastBlock runs synchronously: no other
\* relayer code runs until it has returned (the process may still crash there)
InSync == \E id \in HandlerIds : handler[id].pc = "marked"

\* variant: a check that asks for one confirmation more
Confirmed_Strict(currentBlock, blockNumber) == ~(currentBlock - blockNumber <= confirmationDepth)

\* _handleEvent, confirmation check: NOT (currentBlock - log.blockNumber < confirmationDepth)
Confirmed(currentBlock, blockNumber) == ~(currentBlock - blockNumber < confirmationDepth)

\* _waitForConfirmation: currentBlock >= targetBlock, targetBlock = blockNumber + confirmationDepth
ReachedTarget(currentBlock, blockNumber) == currentBlock >= blockNumber + confirmationDepth

\* governanceListener._handleEvent: selector === pauseSelector; the other listeners always call
HasDestinationCall(e) == e.s # GOV \/ e.sel = pauseSelector

\* variant: _handleEvent without its replay check
ReplayCheck_Off(table, e) == FALSE

\* the replay check of _handleEvent
ReplayCheck(table, e) == isProcessed(table, e.nonce, ChainLabel(e.s), EventType(e.s))

\* _handleEvent(event, currentBlock) up to its first await: the handler it leaves behind
HandleEvent(id, i, currentBlock) ==
    LET e == evlog[i] IN
    IF ~Confirmed(currentBlock, e.blk) THEN Returned(id, i)
    ELSE IF ReplayCheck(processed_events, e) THEN Returned(id, i)
    ELSE IF ~HasDestinationCall(e) THEN Returned(id, i)
    ELSE [pc |-> "send", ev |-> i, attempt |-> 1, tx |-> NoTx, flaky |-> FALSE]

\* bookkeeping of a destination call invocation for event i
NoteCall(i) == called' = called \cup {i}

NoteHandled(h) ==
    IF h.pc = "send"
    THEN NoteCall(h.ev)
    ELSE UNCHANGED called

\* queryFilter(filter, fromBlock, toBlock): the stream's events of the inclusive range, in log order
RECURSIVE QueryFrom(_, _, _, _)
QueryFrom(i, s, fromBlock, toBlock) ==
    IF i > Len(evlog) THEN <<>>
    ELSE IF evlog[i].s = s /\ evlog[i].blk >= fromBlock /\ evlog[i].blk <= toBlock
         THEN <<i>> \o QueryFrom(i + 1, s, fromBlock, toBlock)
         ELSE QueryFrom(i + 1, s, fromBlock, toBlock)
\* variant: a query whose range excludes toBlock
queryFilter_Exclusive(s, fromBlock, toBlock) == QueryFrom(1, s, fromBlock, toBlock - 1)

\* variant: a query that ignores fromBlock and scans from the first block
queryFilter_FromGenesis(s, fromBlock, toBlock) == QueryFrom(1, s, 0, toBlock)

queryFilter(s, fromBlock, toBlock) == QueryFrom(1, s, fromBlock, toBlock)

NoRecovery == [active |-> FALSE, H |-> 0, queue |-> <<>>]

\* variant: main() starts the subscriptions as soon as the first recovery has returned
NextPipeline_Early ==
    /\ recIdx' = recIdx
    /\ mainPc' = "starting"

\* main(): the recoverMissedEvents call of pipeline recIdx has returned
NextPipeline ==
    IF recIdx < Len(RecoveryOrder)
    THEN /\ recIdx' = recIdx + 1
         /\ mainPc' = mainPc
    ELSE /\ recIdx' = recIdx
         /\ mainPc' = "starting"

\* bookkeeping: recoverMissedEvents of stream s, which read head currentBlock, has returned
NoteRecovered(s, currentBlock) ==
    recDone' = IF s = focus
               THEN [H |-> currentBlock, n |-> Cardinality(EventsOf(s))]
               ELSE recDone

\* recoverMissedEvents, lines 22-33: cursor and head are read, the range is queried
RecoverStart ==
    /\ mainPc = "recover"
    /\ ~rec.active
    /\ ~InSync
    /\ LET s == RecoveryOrder[recIdx]
           lastBlock == getLastBlock(block_cursors, s)
           currentBlock == head[SourceChain(s)]
       IN IF lastBlock >= currentBlock
          THEN /\ NextPipeline
               /\ rec' = rec
               /\ NoteRecovered(s, currentBlock)
          ELSE /\ rec' = [active |-> TRUE, H |-> currentBlock,
                          queue |-> queryFilter(s, lastBlock + 1, currentBlock)]
               /\ UNCHANGED <<mainPc, recIdx, recDone>>
    /\ UNCHANGED <<chainVars, storeVars, sup, sub, handler, spent, mined, called, abandoned, markCalls>>

\* recoverMissedEvents, lines 35-37: the loop passes the next event to _handleEvent
RecoverEvent ==
    /\ mainPc = "recover"
    /\ rec.active
    /\ handler[RecH].pc = "idle"
    /\ rec.queue # <<>>
    /\ ~InSync
    /\ LET h == HandleEvent(RecH, Head(rec.queue), rec.H) IN
        /\ handler' = [handler EXCEPT ![RecH] = h]
        /\ NoteHandled(h)
    /\ rec' = [rec EXCEPT !.queue = Tail(@)]
    /\ UNCHANGED <<chainVars, storeVars, mainPc, sup, recIdx, sub, spent, mined, abandoned, markCalls, recDone>>

\* recoverMissedEvents, line 39: the range is exhausted, the cursor is set to currentBlock
RecoverFinish ==
    /\ mainPc = "recover"
    /\ rec.active
    /\ handler[RecH].pc = "idle"
    /\ rec.queue = <<>>
    /\ ~InSync
    /\ block_cursors' = setLastBlock(block_cursors, RecoveryOrder[recIdx], rec.H)
    /\ rec' = NoRecovery
    /\ NextPipeline
    /\ NoteRecovered(RecoveryOrder[recIdx], rec.H)
    /\ UNCHANGED <<chainVars, processed_events, sup, sub, handler, spent, mined, called, abandoned, markCalls>>

\* main(), lines 143-145: the three subscriptions start; each delivers the events of later blocks
StartListening ==
    /\ mainPc = "starting"
    /\ ~InSync
    /\ mainPc' = "live"
    /\ sub' = [s \in Streams |-> head[SourceChain(s)]]
    /\ UNCHANGED <<chainVars, storeVars, sup, recIdx, rec, handler, spent, histVars>>

\* the subscription calls the listener's callback for event i (a k-th time)
Deliver(i, k) ==
    /\ mainPc = "live"
    /\ ~InSync
    /\ i \in Emitted
    /\ evlog[i].blk > sub[evlog[i].s]
    /\ handler[<<i, k>>].pc = "idle"
    /\ k > 1 => handler[<<i, k - 1>>].pc # "idle" /\ CanSpend
    /\ spent' = IF k > 1 THEN spent + 1 ELSE spent
    /\ handler' = [handler EXCEPT ![<<i, k>>] = [Idle EXCEPT !.pc = "wait", !.ev = i]]
    /\ UNCHANGED <<chainVars, storeVars, mainVars, histVars>>

\* _waitForConfirmation: a poll that finds the target block reached; _handleEvent starts
Poll(id) ==
    /\ handler[id].pc = "wait"
    /\ ~InSync
    /\ LET i == handler[id].ev
           currentBlock == head[SourceChain(evlog[i].s)]
       IN /\ ReachedTarget(currentBlock, evlog[i].blk)
          /\ LET h == HandleEvent(id, i, currentBlock) IN
               /\ handler' = [handler EXCEPT ![id] = h]
               /\ NoteHandled(h)
    /\ UNCHANGED <<chainVars, storeVars, mainVars, spent, mined, abandoned, markCalls, recDone>>

(* ----------------------- destination transactions --------------------- *)
\* variant: functions without the role modifier
AccessControlRevert_Open == FALSE

\* onlyRole(RELAYER_ROLE) of mintWrapped / unlock / pauseBridge
AccessControlRevert == ~relayerRole

\* mintWrapped / unlock: if (processedMintNonces[nonce]) revert NonceAlreadyProcessed(nonce)
NonceAlreadyProcessed(e) == e.s # GOV /\ e.nonce \in processedNonces[e.s]

\* mintWrapped / unlock: if (amount == 0) revert ZeroAmount()
ZeroAmount(e) == e.s # GOV /\ e.amount = 0

\* variant: unlock() carries whenNotPaused as well
EnforcedPause_OnUnlock(e) == (e.s = GOV \/ e.s = BURN) /\ paused

\* pauseBridge -> BridgeLock.pause() -> Pausable._pause(), which requires not paused
EnforcedPause(e) == e.s = GOV /\ paused

\* variant: a destination contract without the role modifier
DestinationReverts_NoRole(e) ==
    NonceAlreadyProcessed(e) \/ ZeroAmount(e) \/ EnforcedPause(e)

\* variant: a destination contract without the replay map
DestinationReverts_NoReplayMap(e) ==
    AccessControlRevert \/ ZeroAmount(e) \/ EnforcedPause(e)

\* the destination transaction reverts
DestinationReverts(e) ==
    AccessControlRevert \/ NonceAlreadyProcessed(e) \/ ZeroAmount(e) \/ EnforcedPause(e)

\* variant: the amount is checked before the replay map
RevertReason_ZeroFirst(e) ==
    IF AccessControlRevert THEN "AccessControlUnauthorizedAccount"
    ELSE IF ZeroAmount(e) THEN "ZeroAmount"
    ELSE IF NonceAlreadyProcessed(e) THEN "NonceAlreadyProcessed"
    ELSE IF EnforcedPause(e) THEN "EnforcedPause"
    ELSE NoRevert

\* the error a destination transaction reverts with: the role modifier runs first, then
\* the checks of the function body in the order of the code
RevertReason(e) ==
    IF AccessControlRevert THEN "AccessControlUnauthorizedAccount"
    ELSE IF NonceAlreadyProcessed(e) THEN "NonceAlreadyProcessed"
    ELSE IF ZeroAmount(e) THEN "ZeroAmount"
    ELSE IF EnforcedPause(e) THEN "EnforcedPause"
    ELSE NoRevert

\* variant: mintWrapped / unlock without the write to the replay map
DestinationEffect_NoRecord(e) ==
    /\ processedNonces' = processedNonces
    /\ paused' = IF e.s = GOV THEN TRUE ELSE paused
    /\ supply' = IF e.s = LOCK THEN supply + e.amount ELSE supply
    /\ locked' = IF e.s = BURN THEN locked - e.amount ELSE locked

\* the state change of a destination transaction that does not revert
DestinationEffect(e) ==
    /\ processedNonces' = IF e.s = GOV THEN processedNonces
                          ELSE [processedNonces EXCEPT ![e.s] = @ \cup {e.nonce}]
    /\ paused' = IF e.s = GOV THEN TRUE ELSE paused
    /\ supply' = IF e.s = LOCK THEN supply + e.amount ELSE supply
    /\ locked' = IF e.s = BURN THEN locked - e.amount ELSE locked

\* the hash of the next transaction mined for event i
TxHash(i) == [ev |-> i, k |-> Cardinality({t \in mined : t.ev = i}) + 1]

\* variant: a retry loop without its bound
AfterFailure_Unbounded(id, h, transient) ==
    /\ handler' = [handler EXCEPT ![id] = [h EXCEPT !.attempt = @ + 1, !.flaky = @ \/ transient]]
    /\ NoteCall(h.ev)
    /\ abandoned' = abandoned

\* the catch block of the retry loop: sleep and try again while attempt < MAX_RETRIES,
\* else log CRITICAL and fall out of the loop
AfterFailure(id, h, transient) ==
    IF h.attempt < MAX_RETRIES
    THEN /\ handler' = [handler EXCEPT ![id] = [h EXCEPT !.attempt = @ + 1, !.flaky = @ \/ transient]]
         /\ NoteCall(h.ev)
         /\ abandoned' = abandoned
    ELSE /\ handler' = [handler EXCEPT ![id] = Returned(id, h.ev)]
         /\ abandoned' = abandoned \cup {h.ev}
         /\ UNCHANGED called

\* the transaction of the pending attempt is mined and tx.wait() returns its receipt
TxMined(id) ==
    /\ handler[id].pc = "send"
    /\ LET h == handler[id]
           e == evlog[h.ev]
       IN /\ ~DestinationReverts(e)
          /\ DestinationEffect(e)
          /\ mined' = mined \cup {TxHash(h.ev)}
          /\ handler' = [handler EXCEPT ![id] = [h EXCEPT !.pc = "receipt", !.tx = TxHash(h.ev)]]
    /\ UNCHANGED <<focus, relayerRole, srcVars, head, evlog, storeVars, mainVars, spent,
                   called, abandoned, markCalls, recDone>>

\* the attempt throws without a destination effect: the call reverts, or the RPC request fails
TxFailed(id) ==
    /\ handler[id].pc = "send"
    /\ ~InSync
    /\ LET h == handler[id]
           transient == ~DestinationReverts(evlog[h.ev])
       IN /\ transient => h.flaky \/ CanSpend
          /\ spent' = IF transient /\ ~h.flaky THEN spent + 1 ELSE spent
          /\ AfterFailure(id, h, transient)
    /\ UNCHANGED <<chainVars, storeVars, mainVars, mined, markCalls, recDone>>

\* the transaction is mined but tx.wait() throws (connection lost): effect without receipt
TxMinedReceiptLost(id) ==
    /\ handler[id].pc = "send"
    /\ ~InSync
    /\ LET h == handler[id]
           e == evlog[h.ev]
       IN /\ ~DestinationReverts(e)
          /\ DestinationEffect(e)
          /\ mined' = mined \cup {TxHash(h.ev)}
          /\ h.flaky \/ CanSpend
          /\ spent' = IF h.flaky THEN spent ELSE spent + 1
          /\ AfterFailure(id, h, TRUE)
    /\ UNCHANGED <<focus, relayerRole, srcVars, head, evlog, storeVars, mainVars, markCalls, recDone>>

\* retry loop, lines 104-105: markProcessed or setLastBlock throws (disk full, database
\* locked); both stand inside the try block, so the catch block of the attempt runs
StoreWriteFails(id) ==
    /\ handler[id].pc \in {"receipt", "marked"}
    /\ LET h == handler[id] IN
          /\ h.flaky \/ CanSpend
          /\ spent' = IF h.flaky THEN spent ELSE spent + 1
          /\ AfterFailure(id, [h EXCEPT !.pc = "send", !.tx = NoTx], TRUE)
    /\ UNCHANGED <<chainVars, storeVars, mainVars, mined, markCalls, recDone>>

\* retry loop, line 104: this.db.markProcessed(nonce, chain, receipt.hash, eventType)
WriteMark(id) ==
    /\ handler[id].pc = "receipt"
    /\ ~InSync
    /\ LET h == handler[id]
           e == evlog[h.ev]
       IN /\ processed_events' = markProcessed(processed_events, e.nonce, ChainLabel(e.s), h.tx, EventType(e.s))
          /\ markCalls' = markCalls \cup {Key(e.nonce, ChainLabel(e.s), EventType(e.s))}
          /\ handler' = [handler EXCEPT ![id] = [h EXCEPT !.pc = "marked"]]
    /\ UNCHANGED <<chainVars, block_cursors, mainVars, spent, mined, called, abandoned, recDone>>

\* retry loop, line 105: this.db.setLastBlock(stream, log.blockNumber); return
WriteCursor(id) ==
    /\ handler[id].pc = "marked"
    /\ LET h == handler[id]
           e == evlog[h.ev]
       IN /\ block_cursors' = setLastBlock(block_cursors, e.s, e.blk)
          /\ handler' = [handler EXCEPT ![id] = Returned(id, h.ev)]
    /\ UNCHANGED <<chainVars, processed_events, mainVars, spent, histVars>>

\* variant: a store that lives in memory and is lost with the process
Crash_VolatileStore ==
    /\ Started
    /\ CanSpend
    /\ spent' = spent + 1
    /\ mainPc' = "recover"
    /\ recIdx' = 1
    /\ rec' = NoRecovery
    /\ sub' = [s \in Streams |-> 0]
    /\ handler' = [id \in HandlerIds |-> Idle]
    /\ processed_events' = {}
    /\ block_cursors' = {}
    /\ UNCHANGED <<chainVars, sup, histVars>>

\* the process dies (crash, SIGINT, SIGTERM) and is started again, connects and loads the
\* deployment files: memory is lost, the store and the chains are kept
Crash ==
    /\ Started
    /\ CanSpend
    /\ spent' = spent + 1
    /\ mainPc' = "recover"
    /\ recIdx' = 1
    /\ rec' = NoRecovery
    /\ sub' = [s \in Streams |-> 0]
    /\ handler' = [id \in HandlerIds |-> Idle]
    /\ UNCHANGED <<chainVars, storeVars, sup, histVars>>

\* variant: recoverMissedEvents with a catch that logs the error and returns
RecoveryFailure_Swallowed ==
    /\ NextPipeline
    /\ UNCHANGED <<sup, rec, sub, handler>>

\* an exception of recoverMissedEvents rejects main(): main().catch exits with code 1
RecoveryFailure ==
    /\ sup' = [sup EXCEPT !.exit = 1]
    /\ Exit1

\* recoverMissedEvents, lines 23 and 29: getBlockNumber() or queryFilter() throws
RecoverQueryFails ==
    /\ mainPc = "recover"
    /\ ~rec.active
    /\ ~InSync
    /\ CanSpend
    /\ spent' = spent + 1
    /\ RecoveryFailure
    /\ UNCHANGED <<chainVars, storeVars, histVars>>

\* variant: a heartbeat callback without try/catch; the unhandled rejection ends the process
HeartbeatError_Unhandled ==
    /\ sup' = [sup EXCEPT !.exit = 1]
    /\ Exit1

\* heartbeat, lines 155-157: the error is caught and logged
HeartbeatError ==
    /\ sup' = [sup EXCEPT !.hbErrors = @ + 1]
    /\ UNCHANGED <<mainPc, recIdx, rec, sub, handler>>

\* the timer set by setInterval at the end of main() is running
HeartbeatArmed == mainPc = "live"

\* the setInterval callback, lines 150-158: both head queries succeed, or one throws
Heartbeat ==
    /\ HeartbeatArmed
    /\ ~InSync
    /\ \E ok \in BOOLEAN :
          IF ok
          THEN UNCHANGED <<mainVars, handler, spent>>
          ELSE /\ CanSpend
               /\ spent' = spent + 1
               /\ HeartbeatError
    /\ UNCHANGED <<chainVars, storeVars, histVars>>

Next ==
    \/ \E c \in Chains : MineBlock(c)
    \/ Lock
    \/ Burn
    \/ \E p \in ProposalIds : ExecuteProposal(p)
    \/ Unpause
    \/ RecoverStart
    \/ RecoverEvent
    \/ RecoverFinish
    \/ StartListening
    \/ \E i \in EventIds, k \in Deliveries : Deliver(i, k)
    \/ \E id \in LiveIds : Poll(id)
    \/ \E id \in HandlerIds : TxMined(id)
    \/ \E id \in HandlerIds : TxFailed(id)
    \/ \E id \in HandlerIds : TxMinedReceiptLost(id)
    \/ \E id \in HandlerIds : StoreWriteFails(id)
    \/ \E id \in HandlerIds : WriteMark(id)
    \/ \E id \in HandlerIds : WriteCursor(id)
    \/ Crash

Spec == Init /\ [][Next]_vars

\* the relayer in front of a source that can also carry injected zero-amount logs
NextInjected == Next \/ InjectZeroAmount

InjectSpec == Init /\ [][NextInjected]_vars

\* the whole process: startup, recovery that can fail on its queries, live phase with
\* the heartbeat
NextSupervised ==
    \/ Next
    \/ WaitForRpcReady
    \/ WaitForRpcFails
    \/ LoadDeploymentsFound
    \/ LoadDeploymentsMissing
    \/ RecoverQueryFails
    \/ Heartbeat

SupervisorSpec == InitStartup /\ [][NextSupervised]_vars

\* the Burn stream and the relayer while BridgeLock is paused (an admin may unpause)
NextPaused ==
    \/ \E c \in Chains : MineBlock(c)
    \/ Burn
    \/ Unpause
    \/ RecoverStart
    \/ RecoverEvent
    \/ RecoverFinish
    \/ StartListening
    \/ \E i \in EventIds, k \in Deliveries : Deliver(i, k)
    \/ \E id \in LiveIds : Poll(id)
    \/ \E id \in HandlerIds : TxMined(id)
    \/ \E id \in HandlerIds : TxFailed(id)
    \/ \E id \in HandlerIds : TxMinedReceiptLost(id)
    \/ \E id \in HandlerIds : StoreWriteFails(id)
    \/ \E id \in HandlerIds : WriteMark(id)
    \/ \E id \in HandlerIds : WriteCursor(id)
    \/ Crash

PausedSpec == InitPaused /\ [][NextPaused]_vars

\* GovernanceVoting on its own: proposals are created, voted on and executed
NextVoting ==
    \/ \E data \in {pauseSelector, otherSelector} : CreateProposal(data)
    \/ \E p \in ProposalIds, voter \in Voters, support \in BOOLEAN : Vote(p, voter, support)
    \/ VotingBlock
    \/ \E p \in ProposalIds : ExecuteProposal(p)

VotingSpec == InitVoting /\ [][NextVoting]_vars

\* what the code's scheduling guarantees: chains keep producing blocks, a started
\* recovery pass runs on, a subscription delivers each new event, a handler's await
\* resolves one way or the other; nothing guarantees a crash, a duplicate or an unpause
Fairness ==
    /\ \A c \in Chains : WF_vars(MineBlock(c))
    /\ WF_vars(RecoverStart)
    /\ WF_vars(RecoverEvent)
    /\ WF_vars(RecoverFinish)
    /\ WF_vars(StartListening)
    /\ \A i \in EventIds : WF_vars(Deliver(i, 1))
    /\ \A id \in LiveIds : WF_vars(Poll(id))
    /\ \A id \in HandlerIds : WF_vars(TxMined(id) \/ TxFailed(id) \/ TxMinedReceiptLost(id))
    /\ \A id \in HandlerIds : WF_vars(WriteMark(id))
    /\ \A id \in HandlerIds : WF_vars(WriteCursor(id))

FairSpec == Spec /\ Fairness

(* ------------------------------ properties ---------------------------- *)
Block(i) == evlog[i].blk
StreamOf(i) == evlog[i].s
\* the successfully mined destination transactions of event i
EffectsOf(i) == {t \in mined : t.ev = i}
\* handler id invokes a destination call in this step
Invokes(id) ==
    /\ handler'[id].pc = "send"
    /\ handler[id].pc # "send" \/ handler'[id].attempt # handler[id].attempt

\* C1: for every stream and nonce the destination effect (a mined mintWrapped / unlock /
\* pauseBridge for that event) happens at most once over the whole execution.
C1_EffectAtMostOnce ==
    \A i \in Emitted : Cardinality(EffectsOf(i)) <= 1

\* C2: the relayer invokes the destination call carrying an event's nonce at most once
\* over the whole execution.
C2_CallAtMostOnce ==
    [][\A id \in HandlerIds : Invokes(id) => handler'[id].ev \notin called]_vars

\* C2 (amended): a processing step invokes the destination call for its event only after
\* finding the event unmarked at its replay check, then once more after each failed
\* attempt, and at most MAX_RETRIES times in all.
C2_CallsPerStep ==
    [][\A id \in HandlerIds : Invokes(id) =>
          LET h == handler'[id] IN
          /\ h.attempt \in 1..MAX_RETRIES
          /\ h.attempt = 1 => handler[id].pc \in {"idle", "wait"} /\ ~Marked(h.ev)
          /\ h.attempt > 1 => /\ handler[id].pc \in {"send", "receipt", "marked"}
                              /\ handler[id].ev = h.ev
                              /\ h.attempt = handler[id].attempt + 1
                              /\ h.ev \in called]_vars

C2_Witness ==
    \E id \in HandlerIds : handler[id].pc = "send" /\ handler[id].attempt = MAX_RETRIES

\* C3: every write to a stream's cursor stores a value >= the value stored before it.
C3_CursorMonotone ==
    [][\A s \in Streams : Cursor(s)' >= Cursor(s)]_vars

\* a processing step holds event i between its first destination call and its return
InHand(i) == \E id \in HandlerIds : handler[id].ev = i /\ handler[id].pc \in {"send", "receipt", "marked"}
SourceHead(i) == head[SourceChain(StreamOf(i))]
Relayable(i) == i \in Emitted /\ HasDestinationCall(evlog[i])

\* event i is at or below its stream's cursor, unmarked and not abandoned
Overtaken(i) ==
    IF Relayable(i)
    THEN Block(i) <= Cursor(StreamOf(i)) /\ ~Marked(i) /\ i \notin abandoned
    ELSE FALSE

\* the source head exceeds the block of event i by more than confirmationDepth
Buried(i) == IF Relayable(i) THEN SourceHead(i) > Block(i) + confirmationDepth ELSE FALSE

Settled(i) == IF i \in Emitted THEN Marked(i) \/ i \in abandoned ELSE FALSE

\* C4: every event at or below its stream's cursor has a mark, or was deferred and is
\* passed to the processing step again later. Blocks keep coming, so an event that is
\* passed again and again is passed once it is confirmed: it then gets a destination
\* call, which leaves it in a handler's hands until it is marked or abandoned.
C4_ObservedAgain ==
    \A i \in EventIds : [](Overtaken(i) => <>(Settled(i) \/ InHand(i)))

\* C5: once the source head exceeds B + D for an event of block B, the event is
\* eventually marked or a critical abandonment is recorded for it.
C5_Liveness ==
    \A i \in EventIds : [](Buried(i) => <>Settled(i))

\* C6: a cursor write that is not the final write of a completed recovery range moves
\* the cursor only past events that are marked at that moment.
C6_CursorAfterMark ==
    [][\A id \in HandlerIds : WriteCursor(id) =>
          LET e == evlog[handler[id].ev] IN
          \A i \in EventsOf(e.s) : Block(i) <= e.blk => Marked(i)]_vars

\* the head a processing step's confirmation check uses: recovery passes the head read
\* at the start of the range, the live path the head its last poll has read
HeadUsed(id) == IF id = RecH THEN rec.H ELSE SourceHead(handler'[id].ev)

\* C7: a destination call is submitted for an event of block B only if the head H used
\* for the check satisfies H - B >= D; an event at block H - D is confirmed (its call is
\* invoked), an event at block H - D + 1 is not (no call, no mark, no cursor write).
C7_ConfirmationGate ==
    [][/\ \A id \in HandlerIds :
            Invokes(id) => HeadUsed(id) - Block(handler'[id].ev) >= confirmationDepth
       /\ RecoverEvent =>
            LET i == Head(rec.queue) IN
            /\ rec.H - Block(i) = confirmationDepth /\ ~Marked(i) /\ HasDestinationCall(evlog[i])
                 => Invokes(RecH) /\ handler'[RecH].ev = i /\ handler'[RecH].attempt = 1
            /\ rec.H - Block(i) = confirmationDepth - 1
                 => handler'[RecH] = Idle /\ UNCHANGED <<storeVars, called, destVars>>
       /\ \A id \in LiveIds :
            handler[id].pc = "wait" /\ SourceHead(handler[id].ev) - Block(handler[id].ev) < confirmationDepth
                 => handler'[id] \in {handler[id], Idle}]_vars

C7_Witness ==
    /\ handler[RecH].pc = "send"
    /\ handler[RecH].attempt = 1
    /\ rec.H - Block(handler[RecH].ev) = confirmationDepth

\* C8: no step, a crash and restart included, removes or changes a mark, and every mark
\* carries the hash of a mined destination transaction of its own event.
C8_MarksSurvive ==
    [][/\ processed_events \subseteq processed_events'
       /\ \A r \in processed_events' :
            /\ r.tx_hash \in mined'
            /\ RowKey(r) = Key(evlog'[r.tx_hash.ev].nonce, ChainLabel(evlog'[r.tx_hash.ev].s),
                               EventType(evlog'[r.tx_hash.ev].s))]_vars

\* the relayer process has been started again over a store that holds a mark
C8_Witness ==
    /\ focus = LOCK
    /\ processed_events # {}
    /\ mainPc = "recover"
    /\ recIdx = 1
    /\ ~rec.active

\* the keys in use
Keys == markCalls \cup {Key(evlog[i].nonce, ChainLabel(evlog[i].s), EventType(evlog[i].s)) : i \in Emitted}

\* C9: at most one row per key; markProcessed on an existing key leaves the table, the
\* original tx hash included, unchanged; isProcessed is true for a key exactly when
\* markProcessed has been called for it.
C9_DedupStore ==
    [][/\ \A r1, r2 \in processed_events' : RowKey(r1) = RowKey(r2) => r1 = r2
       /\ \A id \in HandlerIds :
            WriteMark(id) /\ Marked(handler[id].ev) => processed_events' = processed_events
       /\ \A key \in Keys' :
            isProcessed(processed_events', key.nonce, key.chain, key.event_type) <=> key \in markCalls']_vars

\* a second markProcessed call for a key has run with another tx hash than the row's
C9_Witness ==
    \E id \in HandlerIds :
        /\ handler[id].pc = "marked"
        /\ \E r \in processed_events :
              /\ RowKey(r) = Key(evlog[handler[id].ev].nonce, ChainLabel(evlog[handler[id].ev].s),
                                 EventType(evlog[handler[id].ev].s))
              /\ r.tx_hash # handler[id].tx

\* C10: a processing step run on a confirmed event that is already marked returns at
\* the replay check: no destination call, no change of the marks or of the cursor.
C10_ReplayRejected ==
    [][/\ RecoverEvent /\ Marked(Head(rec.queue))
            => handler'[RecH] = Idle /\ UNCHANGED <<storeVars, called, destVars>>
       /\ \A id \in LiveIds :
            Poll(id) /\ Marked(handler[id].ev)
                 => handler'[id] = Returned(id, handler[id].ev) /\ UNCHANGED <<storeVars, called, destVars>>]_vars

\* two live runs on one event have returned: the first relayed it, the second was rejected
C10_Witness ==
    \E i \in Emitted :
        /\ handler[<<i, 1>>].pc = "done"
        /\ handler[<<i, 2>>].pc = "done"
        /\ Marked(i)
        /\ Cardinality(EffectsOf(i)) = 1
        /\ i \notin abandoned
        /\ i \in called

\* the processing step, run on event i with head currentBlock, would invoke the destination call
WouldSubmit(i, currentBlock) ==
    /\ Confirmed(currentBlock, Block(i))
    /\ ~Marked(i)
    /\ HasDestinationCall(evlog[i])

\* a recoverMissedEvents call of the stream under study starts after an earlier one has returned
RecoverAgain ==
    /\ RecoverStart
    /\ RecoveryOrder[recIdx] = focus
    /\ recDone # NeverRecovered

\* the pass that starts in this step submits nothing: it returns at once, or no event
\* of its range gets a destination call
SubmitsNothing ==
    rec'.active => \A j \in 1..Len(rec'.queue) : ~WouldSubmit(rec'.queue[j], rec'.H)

\* C11: a recover() that runs when no source event has been emitted since the previous
\* recover() of the stream returned submits no destination transaction and so writes
\* no mark.
C11_RecoverIdempotent ==
    [][RecoverAgain /\ recDone.n = Cardinality(EventsOf(focus)) => SubmitsNothing]_vars

\* C11 (amended): a recover() that runs when every event of the stream lies in a block
\* at or below the head the previous recover() read finds no event in its range: it
\* submits nothing, writes no mark, and only moves the cursor.
C11_RecoverIdempotentRange ==
    [][RecoverAgain /\ (\A i \in EventsOf(focus) : Block(i) <= recDone.H)
          => /\ rec'.active => rec'.queue = <<>>
             /\ UNCHANGED <<processed_events, called, mined>>]_vars

\* a second pass runs over an empty range although an event of the stream is unmarked
C11_Witness ==
    /\ rec.active
    /\ RecoveryOrder[recIdx] = focus
    /\ rec.queue = <<>>
    /\ recDone # NeverRecovered
    /\ rec.H > recDone.H
    /\ \A i \in EventsOf(focus) : Block(i) <= recDone.H
    /\ \E i \in EventsOf(focus) : ~Marked(i) /\ HasDestinationCall(evlog[i])

\* C12: when the destination call of an unmarked, confirmed event reverts with
\* NonceAlreadyProcessed, the pipeline treats the attempt as a success: it goes on to
\* write the mark (and then the cursor) instead of retrying or giving up.
C12_BenignRevert ==
    [][\A id \in HandlerIds :
          /\ TxFailed(id)
          /\ relayerRole
          /\ NonceAlreadyProcessed(evlog[handler[id].ev])
          /\ ~Marked(handler[id].ev)
          => handler'[id].pc \in {"receipt", "marked"} \/ (Marked(handler[id].ev))']_vars

\* C13: when a recovery pass has abandoned an event of block B (MAX_RETRIES failed
\* attempts, no mark), the pass does not move the stream's cursor to or past B.
C13_AbandonedStaysAhead ==
    [][RecoverFinish =>
          \A i \in EventsOf(RecoveryOrder[recIdx]) :
              /\ i \in abandoned
              /\ ~Marked(i)
              /\ Block(i) > Cursor(StreamOf(i))
              => (Cursor(StreamOf(i)))' < Block(i)]_vars

\* the processing step starts on event i in this step, with head currentBlock
StepStarts(i, currentBlock) ==
    \/ RecoverEvent /\ i = Head(rec.queue) /\ currentBlock = rec.H
    \/ \E id \in LiveIds : Poll(id) /\ i = handler[id].ev /\ currentBlock = SourceHead(i)

\* C14: the processing step, run on a confirmed unmarked ProposalPassed event whose data
\* does not start with the pauseBridge selector, makes no destination call and writes
\* a mark for the proposal.
C14_UnknownSelectorMarked ==
    [][\A i \in EventsOf(GOV) : \A currentBlock \in {rec.H, SourceHead(i)} :
          /\ StepStarts(i, currentBlock)
          /\ Confirmed(currentBlock, Block(i))
          /\ evlog[i].sel # pauseSelector
          /\ ~Marked(i)
          => /\ called' = called
             /\ (Marked(i))']_vars

\* C15: when the destination call of an event reverts with ZeroAmount, the pipeline
\* writes a mark for the event (so that no later pass submits it again).
C15_ZeroAmountMarked ==
    [][\A id \in HandlerIds :
          /\ TxFailed(id)
          /\ relayerRole
          /\ ZeroAmount(evlog[handler[id].ev])
          /\ ~NonceAlreadyProcessed(evlog[handler[id].ev])
          /\ handler[id].attempt = MAX_RETRIES
          => (Marked(handler[id].ev))']_vars

\* the run of the relayer process goes on: this step resets nothing of main()
KeepsRunning == mainPc' = mainPc /\ recIdx' = recIdx /\ sub' = sub

\* C16: when the relayer lacks the relayer role, so that every attempt of every
\* destination call reverts, no mark is written, and a processing step whose last
\* attempt has failed returns while the relayer process keeps running.
C16_NoRoleNoMark ==
    [][~relayerRole =>
          /\ processed_events' = processed_events
          /\ mined' = mined
          /\ \A id \in HandlerIds :
                TxFailed(id) /\ handler[id].attempt = MAX_RETRIES
                    => /\ handler'[id] = Returned(id, handler[id].ev)
                       /\ handler[id].ev \in abandoned'
                       /\ KeepsRunning]_vars

\* without the role a live callback has given up on an event and the relayer is still live
C16_Witness ==
    /\ ~relayerRole
    /\ mainPc = "live"
    /\ \E i \in Emitted : i \in abandoned /\ handler[<<i, 1>>].pc = "done" /\ ~Marked(i)

\* C17: when markProcessed or the cursor write fails after the destination transaction
\* was mined, the relayer process terminates: the failure is not handled as a failed
\* attempt and the handler makes no further destination call.
C17_StoreFailureTerminates ==
    [][\A id \in HandlerIds :
          StoreWriteFails(id) => ~Invokes(id) /\ mainPc' = "recover" /\ handler'[id] = Idle]_vars

\* the handlers that hold an event of stream s, from the confirmation wait to the return
Processing(s) ==
    {id \in HandlerIds : /\ handler[id].pc \in {"wait", "send", "receipt", "marked"}
                         /\ StreamOf(handler[id].ev) = s}

\* C18: within one pipeline at most one event is being processed at any time.
C18_Serialised ==
    \A s \in Streams : Cardinality(Processing(s)) <= 1

\* C19: main() recovers the pipelines one after the other in the order Lock, Burn,
\* Governance, each to completion, and no subscription is started (no live callback
\* runs) before the last of the three recoveries has returned.
C19_StartupOrder ==
    [][/\ mainPc' \in {"starting", "live"}
            => recIdx' = Len(RecoveryOrder) /\ ~rec'.active /\ handler'[RecH].pc = "idle"
       /\ mainPc' = "starting" /\ mainPc # "starting" => mainPc = "recover" /\ recIdx = Len(RecoveryOrder)
       /\ mainPc' = "live" /\ mainPc # "live" => mainPc = "starting"
       /\ recIdx' # recIdx
            => \/ recIdx' = recIdx + 1 /\ ~rec'.active /\ handler[RecH].pc = "idle"
               \/ recIdx' = 1 /\ mainPc' = "recover"
       /\ mainPc' # "live"
            => /\ \A id \in LiveIds : handler'[id].pc = "idle"
               /\ \A s \in Streams : sub'[s] = 0]_vars

\* the subscriptions run after a governance recovery pass that relayed a proposal
C19_Witness ==
    /\ focus = GOV
    /\ mainPc = "live"
    /\ recDone.H > 0
    /\ \A id \in LiveIds : handler[id].pc = "idle"
    /\ \E i \in EventsOf(GOV) : Marked(i)

\* every Locked and Burned event emitted so far has been relayed and none is in a handler
Quiescent ==
    /\ \A i \in Emitted : evlog[i].s \in {LOCK, BURN} => evlog[i].nonce \in processedNonces[evlog[i].s]
    /\ \A id \in HandlerIds : handler[id].pc \in {"idle", "done"}

\* C20: at every quiescent state VaultToken.balanceOf(BridgeLock) equals
\* WrappedVaultToken.totalSupply().
C20_SupplyInvariant ==
    Quiescent => locked = supply

\* a lock has been minted and a burn of part of it has been unlocked
C20_Witness ==
    /\ focus = BURN
    /\ EventsOf(BURN) # {}
    /\ Quiescent
    /\ locked = FundedAmount - BurnAmount * Cardinality(EventsOf(BURN))
    /\ supply = locked

\* the destination call pending in handler id
PendingCall(id) == handler[id].pc = "send"
\* this step is a step of handler id
StepOf(id) == handler'[id] # handler[id]

\* C21: on-chain replay protection. A mined mintWrapped / unlock has recorded its nonce,
\* a recorded nonce stays recorded, a call whose nonce is recorded reverts with
\* NonceAlreadyProcessed for a caller holding the role, and the step that ends such a call
\* changes no balance, supply or replay map and mines nothing; so no nonce has two effects.
C21_OnChainReplay ==
    [][/\ \A s \in {LOCK, BURN} : processedNonces[s] \subseteq processedNonces'[s]
       /\ \A i \in Emitted : StreamOf(i) # GOV =>
             /\ EffectsOf(i)' # {} => evlog[i].nonce \in processedNonces'[StreamOf(i)]
             /\ Cardinality(EffectsOf(i)') <= 1
             /\ relayerRole /\ evlog[i].nonce \in processedNonces[StreamOf(i)]
                   => RevertReason(evlog[i]) = "NonceAlreadyProcessed"
       /\ \A id \in HandlerIds :
             PendingCall(id) /\ StepOf(id) /\ NonceAlreadyProcessed(evlog[handler[id].ev])
                => UNCHANGED <<destVars, mined>>]_vars

\* a processing step that found its event unmarked has had a call reverted by the replay
\* map of a contract on which the relayer holds the role
C21_Witness ==
    \E id \in HandlerIds :
        /\ PendingCall(id) /\ handler[id].attempt >= 2 /\ ~handler[id].flaky
        /\ relayerRole
        /\ StreamOf(handler[id].ev) # GOV
        /\ evlog[handler[id].ev].amount # 0
        /\ evlog[handler[id].ev].nonce \in processedNonces[StreamOf(handler[id].ev)]
        /\ Cardinality(EffectsOf(handler[id].ev)) = 1

\* the events of stream s whose destination transaction is mined in this step
NewlyMined(s) == {i \in Emitted : StreamOf(i) = s /\ EffectsOf(i)' # EffectsOf(i)}

\* C22: governance pause. The mined pauseBridge() of a pause proposal leaves BridgeLock
\* paused; the bridge stays paused until unpause(); while it is paused lock() reverts with
\* EnforcedPause, no Locked event appears, no token moves into the bridge and lockNonce
\* keeps its value; when it is not paused lock() of a positive amount does not revert.
C22_GovernancePause ==
    [][/\ NewlyMined(GOV) # {} => paused'
       /\ paused /\ ~paused' => Unpause
       /\ paused => /\ LockRevert(LockAmount) = "EnforcedPause"
                    /\ EventsOf(LOCK)' = EventsOf(LOCK)
                    /\ locked' <= locked
                    /\ srcNonce'[LOCK] = srcNonce[LOCK]
       /\ ~paused => LockRevert(LockAmount) = NoRevert]_vars

\* a pause was relayed, the admin unpaused, and a user's lock went through
C22_Witness ==
    /\ focus = GOV
    /\ \E t \in mined : StreamOf(t.ev) = GOV
    /\ ~paused
    /\ \E i \in EventsOf(LOCK) : \E j \in EventsOf(GOV) : i > j /\ EffectsOf(j) # {}

\* C23: pauseBridge() is idempotent: with the role held and the bridge paused by another
\* proposal, the pending pauseBridge() call of a pause proposal does not revert, and
\* without transient failures no pause proposal is given up.
C23_PauseIdempotent ==
    /\ \A id \in HandlerIds :
          /\ PendingCall(id) /\ StreamOf(handler[id].ev) = GOV /\ EffectsOf(handler[id].ev) = {}
          /\ relayerRole /\ paused
          => ~DestinationReverts(evlog[handler[id].ev])
    /\ relayerRole /\ spent = 0 => \A i \in abandoned : StreamOf(i) # GOV

\* the events of stream s a recovery pass with cursor lastBlock and head currentBlock scans
InRange(s, lastBlock, currentBlock) ==
    {i \in EventsOf(s) : lastBlock < Block(i) /\ Block(i) <= currentBlock}
Range(q) == {q[n] : n \in 1..Len(q)}

\* C24: crash recovery. A pass that starts with cursor N and head H scans exactly the
\* stream's events of the blocks N+1..H; it passes each to the processing step, which
\* invokes the destination call (attempt 1) for an event that is unmarked and at least
\* D blocks deep; the recovery loop's handler makes a further call only after a failed
\* attempt; once the transaction is mined the mark is written with its hash, then the
\* cursor is set to the event's block and the handler returns; the pass ends by setting
\* the cursor to H, which is >= the block of every scanned event.
C24_RecoveryPass ==
    [][/\ RecoverStart /\ rec'.active =>
             LET s == RecoveryOrder[recIdx] IN
             /\ Range(rec'.queue) = InRange(s, Cursor(s), head[SourceChain(s)])
             /\ Len(rec'.queue) = Cardinality(Range(rec'.queue))
             /\ rec'.H = head[SourceChain(s)]
       /\ RecoverEvent =>
             LET i == Head(rec.queue) IN
             /\ Block(i) <= rec.H
             /\ rec.H - Block(i) >= confirmationDepth /\ ~Marked(i) /\ HasDestinationCall(evlog[i])
                   => /\ Invokes(RecH)
                      /\ handler'[RecH].ev = i
                      /\ handler'[RecH].attempt = 1
       /\ Invokes(RecH) /\ handler'[RecH].attempt > 1 /\ ~handler'[RecH].flaky
             => DestinationReverts(evlog[handler[RecH].ev])
       /\ TxMined(RecH) => handler'[RecH].pc = "receipt" /\ handler'[RecH].tx \in mined'
       /\ \A i \in Emitted, s \in Streams : i = handler[RecH].ev /\ s = StreamOf(i) =>
             /\ WriteMark(RecH) => Marked(i)' /\ ~Invokes(RecH)
             /\ WriteCursor(RecH) => /\ Marked(i)
                                     /\ Cursor(s)' = Block(i)
                                     /\ handler'[RecH] = Idle
       /\ \A s \in Streams : s = RecoveryOrder[recIdx] /\ RecoverFinish =>
             /\ Cursor(s) <= rec.H
             /\ Cursor(s)' = rec.H]_vars

\* the first pass over the Lock stream found one event D blocks deep, its only call was
\* mined, the mark is written and the pass has returned with the cursor past the event
C24_Witness ==
    /\ focus = LOCK /\ relayerRole /\ spent = 0
    /\ mainPc = "recover" /\ recIdx = 2
    /\ EventsOf(LOCK) = {1}
    /\ recDone.H - Block(1) >= confirmationDepth
    /\ Marked(1)
    /\ EffectsOf(1) = {[ev |-> 1, k |-> 1]}
    /\ Cursor(LOCK) >= Block(1)

\* C25: when the process dies, every event whose submission is in flight (a call pending
\* or mined, the mark not yet written) lies above its stream's persisted cursor, so the
\* next startup's recovery range contains it.
C25_InFlightRescanned ==
    [][Crash => \A id \in HandlerIds :
                   handler[id].pc \in {"send", "receipt"} /\ ~Marked(handler[id].ev)
                      => Block(handler[id].ev) > getLastBlock(block_cursors', StreamOf(handler[id].ev))]_vars

\* the ProposalPassed events of proposal p
PassedEvents(p) == {i \in EventsOf(GOV) : evlog[i].nonce = p}

\* executeProposal emits ProposalPassed(p) only for a created proposal past its deadline
\* with votesFor > votesAgainst and votesFor >= QUORUM, sets executed, and at most once
\* per p: on an executed proposal it reverts with ProposalAlreadyExecuted
ExecutesOnlyPassed(p) ==
    /\ PassedEvents(p)' # PassedEvents(p) =>
          /\ p < proposalCount
          /\ block_number > Proposal(p).deadline
          /\ Proposal(p).votesFor > Proposal(p).votesAgainst
          /\ Proposal(p).votesFor >= QUORUM
          /\ ~Proposal(p).executed
          /\ Proposal(p).executed'
          /\ \A i \in PassedEvents(p)' : evlog'[i].sel = Proposal(p).data
    /\ Cardinality(PassedEvents(p)') <= 1
    /\ Proposal(p).executed => Proposal(p).executed' /\ ExecuteRevert(p) = "ProposalAlreadyExecuted"
    /\ PassedEvents(p) # {} => Proposal(p).executed

OnlyAgainst(p) ==
    p < proposalCount /\ Proposal(p).votesFor = 0 /\ Proposal(p).votesAgainst > 0

\* C26: executeProposal emits ProposalPassed for p only if p was created, the block is
\* past p's deadline, votesFor > votesAgainst and votesFor >= QUORUM, at most once per p
\* (a second call reverts with ProposalAlreadyExecuted); executeProposal on a proposal
\* with only against-votes reverts with ProposalNotPassed.
C26_ExecuteProposal ==
    [][\A p \in ProposalIds :
          /\ ExecutesOnlyPassed(p)
          /\ OnlyAgainst(p) => ExecuteRevert(p) = "ProposalNotPassed"]_vars

\* C26 (amended): as C26, but executeProposal on a proposal with only against-votes
\* reverts with VotingNotEnded up to the proposal's deadline and with ProposalNotPassed
\* after it.
C26_ExecuteProposalAfterDeadline ==
    [][\A p \in ProposalIds :
          /\ ExecutesOnlyPassed(p)
          /\ OnlyAgainst(p) =>
                ExecuteRevert(p) = IF block_number <= Proposal(p).deadline
                                   THEN "VotingNotEnded" ELSE "ProposalNotPassed"]_vars

\* proposal 0 was executed and its event emitted; proposal 1 has only against-votes and
\* its deadline has passed
C26_Witness ==
    /\ proposalCount = 2
    /\ Proposal(0).executed /\ Cardinality(PassedEvents(0)) = 1
    /\ OnlyAgainst(1) /\ block_number > Proposal(1).deadline

RECURSIVE Weight(_)
\* the sum of the balances of the voters in S
Weight(S) == IF S = {} THEN 0 ELSE LET v == CHOOSE v \in S : TRUE IN balanceOf[v] + Weight(S \ {v})
VotersOf(p) == {v \in Voters : <<p, v>> \in hasVoted}

\* at most one vote() of each address succeeds on p: a recorded vote stays recorded, the
\* tally of p is the weight of the recorded voters, and it changes only together with
\* the record of one new voter
VotesOnce(p) ==
    /\ VotersOf(p) \subseteq VotersOf(p)'
    /\ Proposal(p).votesFor' + Proposal(p).votesAgainst' = Weight(VotersOf(p)')
    /\ Proposal(p)' # Proposal(p) /\ Proposal(p).executed' = Proposal(p).executed /\ p < proposalCount
          => Cardinality(VotersOf(p)' \ VotersOf(p)) = 1

\* C27: for every proposal and address at most one vote() succeeds; a second vote by the
\* same address reverts with AlreadyVoted and leaves votesFor and votesAgainst unchanged.
C27_NoDoubleVote ==
    [][\A p \in ProposalIds :
          /\ VotesOnce(p)
          /\ \A v \in VotersOf(p) : VoteRevert(p, v) = "AlreadyVoted"]_vars

\* C27 (amended): as C27, but the second vote reverts with AlreadyVoted up to the
\* proposal's deadline and with ProposalNotActive after it.
C27_NoDoubleVoteWhileActive ==
    [][\A p \in ProposalIds :
          /\ VotesOnce(p)
          /\ \A v \in VotersOf(p) :
                VoteRevert(p, v) = IF block_number > Proposal(p).deadline
                                   THEN "ProposalNotActive" ELSE "AlreadyVoted"]_vars

\* two addresses have voted on a proposal that is still open for voting
C27_Witness ==
    \E p \in ProposalIds :
        /\ p < proposalCount
        /\ Cardinality(VotersOf(p)) = 2
        /\ block_number <= Proposal(p).deadline
        /\ Proposal(p).votesFor > 0 /\ Proposal(p).votesAgainst > 0

\* C28: access control. A destination transaction is mined only for a caller holding
\* RELAYER_ROLE; without the role every pending unlock / mintWrapped / pauseBridge call
\* reverts with the access-control error, and the step that ends it changes no balance,
\* supply, replay map entry or pause flag.
C28_AccessControl ==
    [][/\ mined' # mined => relayerRole
       /\ ~relayerRole =>
             /\ UNCHANGED <<processedNonces, paused>>
             /\ supply' <= supply /\ locked' >= locked
             /\ \A id \in HandlerIds : PendingCall(id) =>
                   /\ RevertReason(evlog[handler[id].ev]) = "AccessControlUnauthorizedAccount"
                   /\ StepOf(id) => UNCHANGED <<destVars, mined>>]_vars

\* without the role, the second call for an event is pending after the first has reverted
C28_Witness ==
    /\ ~relayerRole
    /\ \E id \in HandlerIds :
          PendingCall(id) /\ handler[id].attempt = 2 /\ ~handler[id].flaky /\ EffectsOf(handler[id].ev) = {}

\* C29: source nonces are unique and consecutive: the k-th Locked (Burned) event carries
\* nonce k - 1 and the counter equals the number of events emitted; the counter moves only
\* in a step that emits an event, by one; a lock that reverts (bridge paused, zero amount)
\* or a burn that reverts leaves the counter alone.
C29_SourceNonces ==
    [][\A s \in {LOCK, BURN} :
          /\ \A i \in EventsOf(s)' : evlog'[i].nonce = Cardinality({j \in EventsOf(s)' : j < i})
          /\ srcNonce'[s] = Cardinality(EventsOf(s)')
          /\ srcNonce'[s] # srcNonce[s] =>
                /\ srcNonce'[s] = srcNonce[s] + 1
                /\ Len(evlog') = Len(evlog) + 1
                /\ evlog'[Len(evlog')].s = s /\ evlog'[Len(evlog')].nonce = srcNonce[s]
          /\ s = LOCK /\ LockRevert(LockAmount) # NoRevert => srcNonce'[s] = srcNonce[s]
          /\ s = LOCK => LockRevert(0) # NoRevert
          /\ s = BURN /\ BurnRevert(BurnAmount) # NoRevert => srcNonce'[s] = srcNonce[s]
          /\ s = BURN => BurnRevert(0) # NoRevert]_vars

\* three locks have been emitted
C29_Witness ==
    /\ Cardinality(EventsOf(LOCK)) = 3
    /\ srcNonce[LOCK] = 3

\* C30: bounded retry. A processing step makes between 1 and MAX_RETRIES destination
\* calls, makes no further call once an attempt has been mined and its receipt returned,
\* and when it gives up after the third failure the event has no mark.
C30_BoundedRetry ==
    [][\A id \in HandlerIds :
          /\ Invokes(id) => handler'[id].attempt \in 1..MAX_RETRIES
          /\ handler[id].pc \in {"receipt", "marked"} => ~Invokes(id)
          /\ \A i \in abandoned' \ abandoned : i = handler[id].ev => ~Marked(i)']_vars

InStartup == mainPc \in {"rpcA", "rpcB", "deployments"}
\* nothing of the relayer's pipelines is running
NoPipeline ==
    /\ ~rec.active
    /\ sub = [s \in Streams |-> 0]
    /\ \A id \in HandlerIds : handler[id] = Idle

\* C31: startup readiness. waitForRpc moves on at the first successful head query and
\* gives up after exactly maxRetries failed polls, loadDeployments after exactly 60; a
\* startup that gives up exits with code 1 without having started recovery or the live
\* phase, and nothing runs after the exit; recovery starts only out of a startup whose
\* three waits have succeeded.
C31_StartupReadiness ==
    [][/\ InStartup => sup.polls < (IF mainPc = "deployments" THEN deploymentRetries ELSE maxRetries)
       /\ WaitForRpcReady => mainPc' \in {"rpcB", "deployments"} /\ sup'.exit = NoExit
       /\ InStartup /\ mainPc' = "exited" =>
             /\ sup'.exit = 1
             /\ sup'.polls = (IF mainPc = "deployments" THEN deploymentRetries ELSE maxRetries)
             /\ NoPipeline'
             /\ UNCHANGED <<storeVars, destVars, called, mined, recDone>>
       /\ InStartup => NoPipeline /\ called' = called /\ UNCHANGED storeVars
       /\ InStartup /\ mainPc' = "recover" => mainPc = "deployments" /\ sup'.exit = NoExit
       /\ mainPc = "exited" => UNCHANGED <<mainVars, storeVars, handler, called, mined>>]_vars

\* waitForRpc has given up after maxRetries failed polls and the process has exited
C31_Witness ==
    /\ mainPc = "exited"
    /\ sup.exit = 1
    /\ sup.polls = maxRetries
    /\ NoPipeline
    /\ block_cursors = IF Funded THEN setLastBlock({}, LOCK, 1 + confirmationDepth) ELSE {}

\* C32: a heartbeat whose head query fails leaves the process running in its live phase
\* with the timer armed, and changes neither a handler, a subscription nor the store.
C32_HeartbeatFailure ==
    [][Heartbeat =>
          /\ mainPc' = "live"
          /\ sup'.exit = NoExit
          /\ HeartbeatArmed'
          /\ UNCHANGED <<handler, sub, rec, recIdx, storeVars, called, mined>>]_vars

\* two heartbeats have failed, the second after the first, and the process is live
C32_Witness ==
    /\ sup.hbErrors = 2
    /\ mainPc = "live"
    /\ sup.exit = NoExit

\* C33: recover() range semantics. With cursor C and head H read at the start: if C >= H
\* the pass queries nothing, calls nothing and writes nothing; else it queries exactly
\* the stream's events of the blocks C + 1..H, and when it completes the cursor is that H,
\* whatever the head is by then and whatever the range held; a stream without a cursor
\* row is scanned from block 1.
C33_RangeSemantics ==
    [][\A s \in Streams : s = RecoveryOrder[recIdx] =>
          /\ RecoverStart =>
                IF Cursor(s) >= head[SourceChain(s)]
                THEN /\ rec' = rec /\ ~rec'.active
                     /\ UNCHANGED <<storeVars, handler, called, mined>>
                ELSE /\ rec'.active
                     /\ rec'.H = head[SourceChain(s)]
                     /\ rec'.queue = QueryFrom(1, s, Cursor(s) + 1, head[SourceChain(s)])
                     /\ UNCHANGED <<storeVars, handler, called, mined>>
          /\ RecoverStart /\ head[SourceChain(s)] > 0 /\ ~(\E r \in block_cursors : r.chain = s) =>
                /\ rec'.active
                /\ Range(rec'.queue) = {i \in EventsOf(s) : 1 <= Block(i) /\ Block(i) <= head[SourceChain(s)]}
          /\ RecoverFinish =>
                /\ \E r \in block_cursors' : r.chain = s /\ r.last_block = rec.H
                /\ rec.H <= head[SourceChain(s)]]_vars

\* the pass over the Burn stream found no Burned event in the blocks 1..H and has set the
\* cursor to H, while chain B has moved on
C33_Witness ==
    /\ focus = GOV /\ spent = 0
    /\ mainPc = "recover" /\ recIdx = 3 /\ ~rec.active
    /\ EventsOf(BURN) = {}
    /\ \E r \in block_cursors : r.chain = BURN /\ r.last_block = ReadyHead
    /\ head["B"] > ReadyHead

Nonces == 0..(Budget + 2)
\* the nonces of stream t the store reports as processed
ProcessedOf(table, t) == {n \in Nonces : isProcessed(table, n, ChainLabel(t), EventType(t))}
RowOf(table, t) == {r \in table : r.chain = t}

\* C34: stream ownership. The marks of a stream change only in the mark write of a
\* handler of that stream's events, its cursor row only in the cursor write of such a
\* handler or at the end of that stream's recovery pass; so a mark for nonce n of one
\* stream never makes isProcessed true for n on another stream, Burn and Governance
\* (both "chainB") included.
C34_StreamOwnership ==
    [][\A t \in Streams :
          /\ ProcessedOf(processed_events', t) # ProcessedOf(processed_events, t) =>
                \E id \in HandlerIds : WriteMark(id) /\ StreamOf(handler[id].ev) = t
          /\ RowOf(block_cursors', t) # RowOf(block_cursors, t) =>
                \/ \E id \in HandlerIds : WriteCursor(id) /\ StreamOf(handler[id].ev) = t
                \/ RecoverFinish /\ RecoveryOrder[recIdx] = t
          /\ \A id \in HandlerIds : WriteMark(id) /\ StreamOf(handler[id].ev) # t =>
                ProcessedOf(processed_events', t) = ProcessedOf(processed_events, t)]_vars

\* a Burned nonce is marked and the governance proposal with the same number is not
C34_Witness ==
    \E i \in EventsOf(BURN) :
        /\ Marked(i)
        /\ evlog[i].nonce \notin ProcessedOf(processed_events, GOV)
        /\ evlog[i].nonce \in ProcessedOf(processed_events, BURN)
        /\ RowOf(block_cursors, BURN) # {} /\ RowOf(block_cursors, GOV) = {}

\* C35: success-path ordering. The mark is written only with the receipt of a mined
\* transaction in hand, the cursor only after the mark; and when the process dies between
\* the two writes the event's block is above the persisted cursor, so that the next
\* recovery scans it again (and returns at the replay check).
C35_MarkThenCursor ==
    [][/\ \A id \in HandlerIds : WriteMark(id) => handler[id].tx \in mined
       /\ \A id \in HandlerIds : WriteCursor(id) => Marked(handler[id].ev)
       /\ Crash => \A id \in HandlerIds : handler[id].pc = "marked" =>
             Block(handler[id].ev) > getLastBlock(block_cursors', StreamOf(handler[id].ev))]_vars

\* C36: pausing does not block the return path. With BridgeLock paused, the relayer's
\* pending unlock() for an unprocessed burn nonce with a positive amount does not revert,
\* and when it is mined the tokens leave the bridge, the nonce is recorded and the bridge
\* is still paused.
C36_UnlockWhilePaused ==
    [][\A id \in HandlerIds, i \in Emitted :
          /\ PendingCall(id) /\ handler[id].ev = i /\ StreamOf(i) = BURN
          /\ paused /\ relayerRole
          /\ ~NonceAlreadyProcessed(evlog[i]) /\ ~ZeroAmount(evlog[i])
          => /\ ~DestinationReverts(evlog[i])
             /\ TxMined(id) => /\ locked' = locked - evlog[i].amount
                               /\ evlog[i].nonce \in processedNonces'[BURN]
                               /\ paused']_vars

\* the bridge has been paused all along, a burn was relayed and marked
C36_Witness ==
    /\ paused /\ spent = 0
    /\ \E i \in EventsOf(BURN) :
          /\ Marked(i)
          /\ EffectsOf(i) # {}
          /\ evlog[i].nonce \in processedNonces[BURN]
    /\ locked < FundedAmount

\* C37: a recovery pass whose head query or range query throws writes nothing to the
\* store, starts no handler, and ends the process with exit code 1; after the exit no
\* pipeline is recovered or started and the store is not written.
C37_FailedRecovery ==
    [][/\ RecoverQueryFails =>
             /\ UNCHANGED <<storeVars, called, mined, recDone>>
             /\ mainPc' = "exited"
             /\ sup'.exit = 1
             /\ NoPipeline'
       /\ mainPc = "exited" => UNCHANGED <<mainPc, sup, recIdx, rec, sub, storeVars, handler, called, recDone>>]_vars

\* a query of the first or second recovery pass has failed before any cursor was written
C37_Witness ==
    /\ focus = GOV
    /\ mainPc = "exited"
    /\ sup.exit = 1
    /\ sup.polls = 0
    /\ block_cursors = {}
    /\ head["B"] >= ReadyHead

\* C38: a reverted destination call consumes no nonce. With the role held, a pending
\* mintWrapped / unlock with amount 0 and a fresh nonce reverts with ZeroAmount and its
\* step leaves the replay map, the supply and the bridge balance alone; a pending call
\* with a fresh nonce and a positive amount does not revert, whatever reverted before; a
\* call with amount 0 and a processed nonce reverts with NonceAlreadyProcessed.
C38_RevertConsumesNoNonce ==
    [][\A id \in HandlerIds, i \in Emitted :
          PendingCall(id) /\ handler[id].ev = i /\ StreamOf(i) # GOV /\ relayerRole =>
             /\ ZeroAmount(evlog[i]) /\ ~NonceAlreadyProcessed(evlog[i]) =>
                   /\ RevertReason(evlog[i]) = "ZeroAmount"
                   /\ StepOf(id) => UNCHANGED <<destVars, mined>>
             /\ ZeroAmount(evlog[i]) /\ NonceAlreadyProcessed(evlog[i]) =>
                   RevertReason(evlog[i]) = "NonceAlreadyProcessed"
             /\ ~ZeroAmount(evlog[i]) /\ ~NonceAlreadyProcessed(evlog[i]) =>
                   RevertReason(evlog[i]) = NoRevert /\ ~DestinationReverts(evlog[i])]_vars

\* one recovery pass: the call for a zero-amount log with nonce n reverted three times,
\* then the call for the contract's event with the same nonce n was mined
C38_Witness ==
    /\ mainPc = "recover" /\ spent = 1 /\ relayerRole
    /\ \E i, j \in Emitted :
          /\ i < j
          /\ StreamOf(i) = StreamOf(j) /\ StreamOf(i) # GOV
          /\ evlog[i].nonce = evlog[j].nonce
          /\ evlog[i].amount = 0 /\ i \in abandoned /\ EffectsOf(i) = {}
          /\ evlog[j].amount # 0 /\ EffectsOf(j) # {}
====
